---- MODULE Spec2Model ----
(***************************************************************************)
(* The series scheduler of pavilion (lib/pavilion/series.py).              *)
(*                                                                         *)
(* SeriesManager.__init__ builds the dependency graph of a series, starts  *)
(* the tests that wait on nothing, and then polls: check_and_update moves  *)
(* the started tests whose RUN_COMPLETE files all exist to finished, and   *)
(* every test of not_started whose prerequisites are all in finished is    *)
(* either started through run_test or replaced by skipped test runs.       *)
(* The tests themselves run outside the scheduler: an external executor    *)
(* writes each test run's result and then its RUN_COMPLETE file.           *)
(***************************************************************************)
EXTENDS Naturals, Sequences, FiniteSets

(***************************************************************************)
(* Bounds of the model.                                                    *)
(***************************************************************************)
\* the most test runs one call of the run command produces (last_tests)
MaxInst == 1
\* the most raw configs the resolver loads for one test name
MaxConfigs == 2

\* the test names of the series section, in the order of the config file
Order == <<"a", "b", "c">>
\* a name used in depends_on that no test of the series has
Undefined == "zz"
\* the values a finished test run's results['result'] can hold
Results == {"PASS", "FAIL"}
\* the note of a skipped test's status
SkipNote == "Skipping. Previous test did not PASS."
\* the note of the status of a test run the run command scheduled
RunNote == "SCHEDULED"
\* the value of test_info[name] that has no 'obj' key
NoObj == <<0>>

(***************************************************************************)
(* List helpers (python list semantics).                                   *)
(***************************************************************************)
Range(s) == {s[i] : i \in 1..Len(s)}

\* list.remove(x) left out: the list stays as it is
RemoveNone(s, x) == s

\* list.remove(x): drops the first occurrence of x
RECURSIVE Remove(_, _)
Remove(s, x) ==
    IF s = <<>> THEN <<>>
    ELSE IF Head(s) = x THEN Tail(s)
    ELSE <<Head(s)>> \o Remove(Tail(s), x)

\* list(set): the elements of a set in any order, each once
ListsOf(S) ==
    {s \in [1..Cardinality(S) -> S] : \A i, j \in 1..Cardinality(S) : s[i] = s[j] => i = j}

NoDuplicates(s) == \A i, j \in 1..Len(s) : s[i] = s[j] => i = j

VARIABLES
    dep_graph,      \* self.dep_graph: test name -> the names it depends on
    depends_pass,   \* series_section[name]['depends_pass'] == 'True'
    num_configs,    \* len(test_info[name]['configs'])
    pc,             \* where __init__ stands
    setup_idx,      \* position of the kick-off loop in test_info
    not_started,    \* self.not_started
    started,        \* self.started
    finished,       \* self.finished
    temp_started,   \* the rest of check_and_update's copy of started
    temp_waiting,   \* the rest of the poll pass's copy of not_started
    obj,            \* test_info[name]['obj']: ids of the test runs, or NoObj
    test_runs,      \* every test run made so far, by id
    series_tests,   \* series_obj.tests: ids added through add_tests
    run_calls,      \* history: how often run_test was called per name
    skipped_tests,  \* history: the skipped test runs made per name
    polled,         \* history: is_done has looked for a RUN_COMPLETE file
    seen_complete,  \* history: the test runs whose RUN_COMPLETE file is_done found
    results_read,   \* history: the test runs whose result all_tests_passed read
    dict1,          \* union_dictionary: the first dict, as the caller holds it
    dict2,          \* union_dictionary: the second dict
    new_dict,       \* union_dictionary: the dict returned
    ud_args,        \* history: dict1 and dict2 as they were at the call
    ud_pc,          \* union_dictionary: "call" before, "return" after
    series_dir,     \* the entries of the series directory (self.path)
    series_path,    \* the series directory exists
    series_obj,     \* how TestSeries(pav_cfg, tests) ended: "made" or the error
    test_dirs,      \* ids of the test runs whose directory exists
    broken,         \* ids of the test runs TestRun.load fails on
    last_series,    \* what the user's .series file holds
    pointer_write,  \* history: how the write of the .series file went
    added,          \* history: ids handed to calls that returned normally
    tests_before,   \* history: self.tests before the last add_tests call
    add_result,     \* history: how the last add_tests call ended, and
                    \* whether any add_tests call raised
    loaded          \* what from_id gave: how it ended and the ids it loaded

vars == <<dep_graph, depends_pass, num_configs, pc, setup_idx, not_started,
          started, finished, temp_started, temp_waiting, obj, test_runs,
          series_tests, run_calls, skipped_tests, polled, seen_complete,
          results_read, dict1, dict2, new_dict, ud_args, ud_pc,
          series_dir, series_path, series_obj, test_dirs, broken, last_series,
          pointer_write, added, tests_before, add_result, loaded>>

\* the state of the series registry next to self.tests and the directory
registry_vars == <<series_path, series_obj, test_dirs, broken, last_series,
                   pointer_write, added, tests_before, add_result, loaded>>

\* the state of a call of union_dictionary
union_vars == <<dict1, dict2, new_dict, ud_args, ud_pc>>

config_vars == <<dep_graph, depends_pass, num_configs>>

\* self.all_tests
all_tests == Range(Order)

\* test_info[name]['prev']
prev(test_name) == dep_graph[test_name]

\* test_info[name]['next']
next(test_name) == {t_n \in all_tests : test_name \in dep_graph[t_n]}

(***************************************************************************)
(* Test runs. A test run made by the run command starts without result and *)
(* without RUN_COMPLETE file; a skipped test run is complete at once.      *)
(***************************************************************************)
NewRun == [result |-> "", complete |-> FALSE, status |-> RunNote, skipped |-> FALSE]

\* TestRun(pav_cfg, config); status.set(COMPLETE, note); set_run_complete()
SkippedRun == [result |-> "", complete |-> TRUE, status |-> SkipNote, skipped |-> TRUE]

\* the ids of n test runs made now
NewIds(n) == [i \in 1..n |-> Len(test_runs) + i]

\* (test_obj.path / 'RUN_COMPLETE').exists()
RunCompleteExists(id) == test_runs[id].complete

\* is_done with the test of the RUN_COMPLETE file inverted
is_done_inverted(test_name) ==
    IF obj[test_name] = NoObj THEN FALSE
    ELSE \A i \in 1..Len(obj[test_name]) : ~RunCompleteExists(obj[test_name][i])

\* is_done that does not look for the RUN_COMPLETE files
is_done_has_obj(test_name) == obj[test_name] # NoObj

\* is_done: every test run of the test has its RUN_COMPLETE file
is_done(test_name) ==
    IF obj[test_name] = NoObj THEN FALSE
    ELSE \A i \in 1..Len(obj[test_name]) : RunCompleteExists(obj[test_name][i])

\* all_tests_passed that passes over a test without 'obj' (a skipped test)
all_tests_passed_no_obj(test_names) ==
    \A test_name \in test_names :
        \/ test_name \notin DOMAIN obj
        \/ obj[test_name] = NoObj
        \/ \A i \in 1..Len(obj[test_name]) :
               test_runs[obj[test_name][i]].result = "PASS"

\* all_tests_passed that compares the result with another word
all_tests_passed_word(test_names) ==
    \A test_name \in test_names :
        /\ test_name \in DOMAIN obj
        /\ obj[test_name] # NoObj
        /\ \A i \in 1..Len(obj[test_name]) :
               test_runs[obj[test_name][i]].result = "PASSED"

all_tests_passed(test_names) ==
    \A test_name \in test_names :
        /\ test_name \in DOMAIN obj
        /\ obj[test_name] # NoObj
        /\ \A i \in 1..Len(obj[test_name]) :
               test_runs[obj[test_name][i]].result = "PASS"

\* the test runs whose RUN_COMPLETE file a call of is_done that returns True
\* has found: every test run of the test
MarkersSeen(test_name) == Range(obj[test_name])

\* the test runs of one test whose results['result'] all_tests_passed reads:
\* it goes through the list and returns at the first result that is not PASS
ResultsReadOf(test_name) ==
    {obj[test_name][i] : i \in {k \in 1..Len(obj[test_name]) :
        \A j \in 1..(k - 1) : test_runs[obj[test_name][j]].result = "PASS"}}

\* the test runs whose result a call all_tests_passed(test_names) reads, over
\* the orders the names can have in depends_on; a name without 'obj' has none
ResultsRead(test_names) ==
    UNION {ResultsReadOf(test_name) :
              test_name \in {t \in test_names \cap all_tests : obj[t] # NoObj}}

\* ready that counts a test of started as finished
ready_started(test_name) ==
    \A wait \in prev(test_name) : wait \in Range(finished) \cup Range(started)

\* ready computed with any() in place of all()
ready_any(test_name) == \E wait \in prev(test_name) : wait \in Range(finished)

\* ready = all(wait in self.finished for wait in test_info[name]['prev'])
ready(test_name) == \A wait \in prev(test_name) : wait \in Range(finished)

(***************************************************************************)
(* union_dictionary(dict1, dict2). A dict is a function from its keys to   *)
(* lists of values. list(set(l)) gives the values of l once each, in an    *)
(* order the language does not fix.                                        *)
(***************************************************************************)
\* the most values in a list of a dict handed to union_dictionary
MaxList == 2

\* the condition keys and values of only_if / not_if
Keys == {"k1", "k2"}
Vals == {"x", "y"}

\* the lists of at most n values
ListsUpTo(n) == UNION {[1..m -> Vals] : m \in 0..n}

\* the dicts with lists of at most n values
Dicts(n) == UNION {[K -> ListsUpTo(n)] : K \in SUBSET Keys}

\* the empty dict
NoDict == [k \in {} |-> <<>>]

\* the list kept as it is, where list(set(l)) was meant
NoDedupe(l) == {l}

\* list(set(l)): every list the call can return
Dedupe(l) == ListsOf(Range(l))

\* new_dict[key] for a key of dict1: every value the code can leave there
\*   new_dict[key] = list_value; if key in dict2: extend, list(set(..))
FromDict1(d1, d2, key) ==
    IF key \in DOMAIN d2 THEN Dedupe(d1[key] \o d2[key]) ELSE {d1[key]}

\* the values new_dict[key] can take at return
NewValues(d1, d2, key) ==
    IF key \in DOMAIN d1 THEN FromDict1(d1, d2, key) ELSE {d2[key]}

\* every dict union_dictionary(d1, d2) can return
union_dictionary(d1, d2) ==
    LET keys == DOMAIN d1 \cup DOMAIN d2
        values == UNION {NewValues(d1, d2, k) : k \in keys}
    IN  {f \in [keys -> values] : \A k \in keys : f[k] \in NewValues(d1, d2, k)}

\* dict1 after the call: new_dict[key] is dict1's own list when extend runs
Dict1After(d1, d2) ==
    [k \in DOMAIN d1 |-> IF k \in DOMAIN d2 THEN d1[k] \o d2[k] ELSE d1[k]]

\* no call of union_dictionary is under way
NoUnion ==
    /\ dict1 = NoDict
    /\ dict2 = NoDict
    /\ new_dict = NoDict
    /\ ud_args = <<NoDict, NoDict>>
    /\ ud_pc = "none"

(***************************************************************************)
(* The series registry (TestSeries). The series directory holds one entry  *)
(* per member: a symlink named by the test id (utils.make_id_path) to the  *)
(* directory of the test run. Names are lists of characters.               *)
(***************************************************************************)
\* the most test runs handed to TestSeries or add_tests, and their ids
MaxTests == 2

\* the number of digits of an id in a path (utils.make_id_path)
IdDigits == 7

\* the id TestRun.create_id_dir gives the series
SeriesId == 1

TestIds == 1..MaxTests

DigitChars == <<"0", "1", "2", "3", "4", "5", "6", "7", "8", "9">>

\* str(n) for n >= 0
RECURSIVE ToDigits(_)
ToDigits(n) ==
    IF n < 10 THEN <<DigitChars[n + 1]>>
    ELSE ToDigits(n \div 10) \o <<DigitChars[(n % 10) + 1]>>

RECURSIVE ZeroPad(_, _)
ZeroPad(name, width) ==
    IF Len(name) >= width THEN name ELSE ZeroPad(<<"0">> \o name, width)

\* the name of the link that is made for the series id, not the test id
SeriesIdName(id) == ZeroPad(ToDigits(SeriesId), IdDigits)

\* utils.make_id_path(self.path, test.id).name
make_id_path(id) == ZeroPad(ToDigits(id), IdDigits)

\* int(name) raises ValueError
ValueError(name) == name = <<>> \/ \E i \in 1..Len(name) : name[i] \notin Range(DigitChars)

DigitValue(c) == CHOOSE d \in 0..9 : DigitChars[d + 1] = c

\* int(name)
RECURSIVE int(_)
int(name) ==
    IF Len(name) = 1 THEN DigitValue(name[1])
    ELSE 10 * int(SubSeq(name, 1, Len(name) - 1)) + DigitValue(name[Len(name)])

\* 's{}'.format(self._id)
SeriesIdString == <<"s">> \o ToDigits(SeriesId)

\* link_path.symlink_to(test.path)
Link(id) == [name |-> make_id_path(id), symlink |-> TRUE, target |-> id]

\* entries nobody of pavilion makes: a link with a name that is no id, a file
BadNameLink == [name |-> <<"x">>, symlink |-> TRUE, target |-> 1]
JunkFile == [name |-> <<"n", "o", "t", "e">>, symlink |-> FALSE, target |-> 0]

\* symlink_to raises FileExistsError: the directory has an entry of that name
NameTaken(dir, name) == \E e \in dir : e.name = name

\* the test lists handed to TestSeries(pav_cfg, tests) and to add_tests
TestLists == UNION {[1..n -> TestIds] : n \in 0..MaxTests}

\* __init__, lines 257-265: a link per test, in order; symlink_to raises when
\* the name is taken or, at test number fail, when the filesystem refuses
RECURSIVE LinkTests(_, _, _, _)
LinkTests(dir, tests, i, fail) ==
    IF i > Len(tests) THEN [dir |-> dir, raised |-> FALSE]
    ELSE IF i = fail \/ NameTaken(dir, make_id_path(tests[i]))
         THEN [dir |-> dir, raised |-> TRUE]
         ELSE LinkTests(dir \cup {Link(tests[i])}, tests, i + 1, fail)

\* TestSeries.add_tests: per test, self.tests[test.id] = test, then the link;
\* TestSeriesError when symlink_to raises
RECURSIVE add_tests(_, _, _, _, _)
add_tests(tests, dir, test_objs, i, fail) ==
    IF i > Len(test_objs) THEN [tests |-> tests, dir |-> dir, raised |-> FALSE]
    ELSE IF i = fail \/ NameTaken(dir, make_id_path(test_objs[i]))
         THEN [tests |-> tests \cup {test_objs[i]}, dir |-> dir, raised |-> TRUE]
         ELSE add_tests(tests \cup {test_objs[i]}, dir \cup {Link(test_objs[i])},
                        test_objs, i + 1, fail)

\* _save_series_id: the write raises and the handler logs through
\* self._logger, which __init__ sets at line 273, after the call of line 267
SaveSeriesId(write_ok, logger_set) ==
    IF write_ok THEN "ok"
    ELSE IF logger_set THEN "logged"
    ELSE "AttributeError"

\* from_id, line 304: link_path.is_symlink() and link_path.is_dir()
IsLinkToDir(e) == e.symlink /\ e.target \in test_dirs

\* from_id, lines 321-324: some entry makes the loop raise ValueError
Polluted(dir) == \E e \in dir : ~IsLinkToDir(e)

\* from_id, lines 305-319: the ids of the test runs that are loaded
LoadedTests(dir) ==
    {int(e.name) : e \in {x \in dir : IsLinkToDir(x) /\ ~ValueError(x.name)
                                        /\ int(x.name) \notin broken}}

\* from_id: int(id_[1:]), the directory, the entries
from_id(id_) ==
    IF ValueError(Tail(id_)) THEN [id |-> id_, status |-> "ValueError", tests |-> {}]
    ELSE IF int(Tail(id_)) # SeriesId \/ ~series_path
         THEN [id |-> id_, status |-> "TestSeriesError", tests |-> {}]
    ELSE IF Polluted(series_dir) THEN [id |-> id_, status |-> "ValueError", tests |-> {}]
    ELSE [id |-> id_, status |-> "ok", tests |-> LoadedTests(series_dir)]

NoAdd == [last |-> "none", raised |-> FALSE]

NotLoaded == [id |-> <<>>, status |-> "none", tests |-> {}]

\* the series the scheduler is handed: made, with no member yet
SeriesMade ==
    /\ series_dir = {}
    /\ series_path = TRUE
    /\ series_obj = "made"
    /\ test_dirs = {}
    /\ broken = {}
    /\ last_series = SeriesIdString
    /\ pointer_write = "ok"
    /\ added = {}
    /\ tests_before = {}
    /\ add_result = NoAdd
    /\ loaded = NotLoaded

(***************************************************************************)
(* The series configs the model runs: every dependency graph over the test *)
(* names (cycles and tests that list themselves included), and every such  *)
(* graph with one test that depends on a name no test has. The configs of  *)
(* a test are read only in the poll loop under depends_pass (line 157 is   *)
(* inside the branches of lines 150 and 151), so a test without            *)
(* depends_pass or without prerequisites is given one config.              *)
(***************************************************************************)
DefinedGraphs == [all_tests -> SUBSET all_tests]

UndefinedGraphs ==
    {[g EXCEPT ![t] = {Undefined}] : g \in DefinedGraphs, t \in all_tests}

Graphs == DefinedGraphs \cup UndefinedGraphs

\* every name that a test depends on, directly or through other tests
RECURSIVE Closure(_, _, _)
Closure(g, names, n) ==
    IF n = 0 THEN names
    ELSE Closure(g, names \cup UNION {g[x] : x \in names \cap all_tests}, n - 1)

AllPrev(g, test_name) == Closure(g, g[test_name], Len(Order))

HasCycle(g) == \E t \in all_tests : t \in AllPrev(g, t)

AllDefined(g) == \A t \in all_tests : g[t] \subseteq all_tests

Init ==
    /\ dep_graph \in Graphs
    /\ depends_pass \in [all_tests -> BOOLEAN]
    /\ num_configs \in [all_tests -> 1..MaxConfigs]
    /\ \A t \in all_tests :
           (~depends_pass[t] \/ dep_graph[t] = {}) => num_configs[t] = 1
    /\ pc = "setup"
    /\ setup_idx = 1
    /\ not_started = <<>>
    /\ started = <<>>
    /\ finished = <<>>
    /\ temp_started = <<>>
    /\ temp_waiting = <<>>
    /\ obj = [t \in all_tests |-> NoObj]
    /\ test_runs = <<>>
    /\ series_tests = {}
    /\ run_calls = [t \in all_tests |-> 0]
    /\ skipped_tests = [t \in all_tests |-> <<>>]
    /\ polled = FALSE
    /\ seen_complete = {}
    /\ results_read = {}
    /\ NoUnion
    /\ SeriesMade

(***************************************************************************)
(* run_test: the run command makes the test runs of the test and hands     *)
(* them back in last_tests; the test is started.                           *)
(***************************************************************************)
run_test(test_name) ==
    \E n \in 1..MaxInst :
        /\ test_runs' = test_runs \o [i \in 1..n |-> NewRun]
        /\ obj' = [obj EXCEPT ![test_name] = NewIds(n)]
        /\ started' = Append(started, test_name)
        /\ run_calls' = [run_calls EXCEPT ![test_name] = @ + 1]

\* the kick-off test reading 'next' in place of 'prev'
NoNext(test_name) == next(test_name) = {}

\* if not self.test_info[test_name]['prev']
NoPrev(test_name) == prev(test_name) = {}

(***************************************************************************)
(* The kick-off loop: one pass over test_info, in the config's order.      *)
(***************************************************************************)
KickOff ==
    /\ pc = "setup"
    /\ setup_idx <= Len(Order)
    /\ NoPrev(Order[setup_idx])
    /\ run_test(Order[setup_idx])
    /\ not_started' \in ListsOf(all_tests \ Range(started'))
    /\ setup_idx' = setup_idx + 1
    /\ UNCHANGED <<config_vars, union_vars, registry_vars, seen_complete, results_read, pc, finished, temp_started, temp_waiting,
                   series_tests, series_dir, skipped_tests, polled>>

KickOffPass ==
    /\ pc = "setup"
    /\ setup_idx <= Len(Order)
    /\ ~NoPrev(Order[setup_idx])
    /\ setup_idx' = setup_idx + 1
    /\ UNCHANGED <<config_vars, union_vars, registry_vars, seen_complete, results_read, pc, not_started, started, finished, temp_started,
                   temp_waiting, obj, test_runs, series_tests, series_dir, run_calls,
                   skipped_tests, polled>>

KickOffEnd ==
    /\ pc = "setup"
    /\ setup_idx > Len(Order)
    /\ pc' = "while"
    /\ UNCHANGED <<config_vars, union_vars, registry_vars, seen_complete, results_read, setup_idx, not_started, started, finished,
                   temp_started, temp_waiting, obj, test_runs, series_tests, series_dir,
                   run_calls, skipped_tests, polled>>

(***************************************************************************)
(* while len(self.not_started) != 0                                        *)
(***************************************************************************)
LoopEnter ==
    /\ pc = "while"
    /\ Len(not_started) # 0
    /\ pc' = "check"
    /\ temp_started' = started
    /\ UNCHANGED <<config_vars, union_vars, registry_vars, seen_complete, results_read, setup_idx, not_started, started, finished,
                   temp_waiting, obj, test_runs, series_tests, series_dir, run_calls,
                   skipped_tests, polled>>

LoopExit ==
    /\ pc = "while"
    /\ Len(not_started) = 0
    /\ pc' = "done"
    /\ UNCHANGED <<config_vars, union_vars, registry_vars, seen_complete, results_read, setup_idx, not_started, started, finished,
                   temp_started, temp_waiting, obj, test_runs, series_tests, series_dir,
                   run_calls, skipped_tests, polled>>

(***************************************************************************)
(* check_and_update, one test of its copy of started at a time: the        *)
(* executor may write RUN_COMPLETE files between two calls of is_done.     *)
(***************************************************************************)
CheckDone ==
    /\ pc = "check"
    /\ temp_started # <<>>
    /\ is_done(Head(temp_started))
    /\ started' = Remove(started, Head(temp_started))
    /\ finished' = Append(finished, Head(temp_started))
    /\ temp_started' = Tail(temp_started)
    /\ polled' = TRUE
    /\ seen_complete' = seen_complete \cup MarkersSeen(Head(temp_started))
    /\ UNCHANGED <<config_vars, union_vars, registry_vars, results_read, pc, setup_idx, not_started, temp_waiting, obj,
                   test_runs, series_tests, series_dir, run_calls, skipped_tests>>

CheckNotDone ==
    /\ pc = "check"
    /\ temp_started # <<>>
    /\ ~is_done(Head(temp_started))
    /\ temp_started' = Tail(temp_started)
    /\ polled' = TRUE
    /\ UNCHANGED <<config_vars, union_vars, registry_vars, seen_complete, results_read, pc, setup_idx, not_started, started, finished,
                   temp_waiting, obj, test_runs, series_tests, series_dir, run_calls,
                   skipped_tests>>

\* check_and_update returns; temp_waiting = copy.deepcopy(self.not_started)
CheckEnd ==
    /\ pc = "check"
    /\ temp_started = <<>>
    /\ pc' = "gate"
    /\ temp_waiting' = not_started
    /\ UNCHANGED <<config_vars, union_vars, registry_vars, seen_complete, results_read, setup_idx, not_started, started, finished,
                   temp_started, obj, test_runs, series_tests, series_dir, run_calls,
                   skipped_tests, polled>>

(***************************************************************************)
(* The poll pass over temp_waiting, one waiting test at a time.            *)
(***************************************************************************)
\* depends_pass taken as a truth value: the words 'True' and 'False' both count
DependsPassTruthy(test_name) == depends_pass[test_name] \in BOOLEAN

\* self.series_section[test_name]['depends_pass'] == 'True'
DependsPass(test_name) == depends_pass[test_name]

\* one skipped test run for the test, whatever the number of its configs
SkippedRunsOnce(test_name) == <<SkippedRun>>

\* the skipped test runs of a test: one per config of test_info[name]['configs']
SkippedRuns(test_name) == [i \in 1..num_configs[test_name] |-> SkippedRun]

GateNotReady ==
    /\ pc = "gate"
    /\ temp_waiting # <<>>
    /\ ~ready(Head(temp_waiting))
    /\ temp_waiting' = Tail(temp_waiting)
    /\ UNCHANGED <<config_vars, union_vars, registry_vars, seen_complete, results_read, pc, setup_idx, not_started, started, finished,
                   temp_started, obj, test_runs, series_tests, series_dir, run_calls,
                   skipped_tests, polled>>

\* depends_pass and all_tests_passed(prev): run_test, not_started.remove
GateRunPassed ==
    /\ pc = "gate"
    /\ temp_waiting # <<>>
    /\ ready(Head(temp_waiting))
    /\ DependsPass(Head(temp_waiting))
    /\ all_tests_passed(prev(Head(temp_waiting)))
    /\ run_test(Head(temp_waiting))
    /\ not_started' = Remove(not_started, Head(temp_waiting))
    /\ temp_waiting' = Tail(temp_waiting)
    /\ results_read' = results_read \cup ResultsRead(prev(Head(temp_waiting)))
    /\ UNCHANGED <<config_vars, union_vars, registry_vars, seen_complete, pc, setup_idx, finished, temp_started,
                   series_tests, series_dir, skipped_tests, polled>>

\* depends_pass and not all_tests_passed(prev): a skipped test run per config
GateSkip ==
    /\ pc = "gate"
    /\ temp_waiting # <<>>
    /\ ready(Head(temp_waiting))
    /\ DependsPass(Head(temp_waiting))
    /\ ~all_tests_passed(prev(Head(temp_waiting)))
    /\ LET test_name == Head(temp_waiting)
           runs == SkippedRuns(test_name)
           ids == NewIds(Len(runs))
           \* series_obj.add_tests([skipped_test]) per config: the ids are new,
           \* and the filesystem is taken not to refuse the links
       IN  /\ test_runs' = test_runs \o runs
           /\ LET r == add_tests(series_tests, series_dir, ids, 1, 0)
              IN  series_tests' = r.tests /\ series_dir' = r.dir
           /\ skipped_tests' = [skipped_tests EXCEPT ![test_name] = ids]
           /\ not_started' = Remove(not_started, test_name)
           /\ finished' = Append(finished, test_name)
    /\ temp_waiting' = Tail(temp_waiting)
    /\ results_read' = results_read \cup ResultsRead(prev(Head(temp_waiting)))
    /\ UNCHANGED <<config_vars, union_vars, registry_vars, seen_complete, pc, setup_idx, started, temp_started, obj,
                   run_calls, polled>>

\* not depends_pass: run_test, not_started.remove
GateRunAlways ==
    /\ pc = "gate"
    /\ temp_waiting # <<>>
    /\ ready(Head(temp_waiting))
    /\ ~DependsPass(Head(temp_waiting))
    /\ run_test(Head(temp_waiting))
    /\ not_started' = Remove(not_started, Head(temp_waiting))
    /\ temp_waiting' = Tail(temp_waiting)
    /\ UNCHANGED <<config_vars, union_vars, registry_vars, seen_complete, results_read, pc, setup_idx, finished, temp_started,
                   series_tests, series_dir, skipped_tests, polled>>

\* the pass is over: time.sleep(1)
Sleep ==
    /\ pc = "gate"
    /\ temp_waiting = <<>>
    /\ pc' = "while"
    /\ UNCHANGED <<config_vars, union_vars, registry_vars, seen_complete, results_read, setup_idx, not_started, started, finished,
                   temp_started, temp_waiting, obj, test_runs, series_tests, series_dir,
                   run_calls, skipped_tests, polled>>

(***************************************************************************)
(* The executor, outside the scheduler. It finalises a test run's result   *)
(* before it writes the RUN_COMPLETE file, and the scheduler looks at a    *)
(* test run only through that file and, after it, the result: the step is  *)
(* the RUN_COMPLETE file appearing, the result being written already.      *)
(***************************************************************************)
SetRunComplete ==
    /\ \E id \in 1..Len(test_runs) :
        /\ ~test_runs[id].complete
        /\ \E r \in Results :
               test_runs' = [test_runs EXCEPT ![id].result = r, ![id].complete = TRUE]
    /\ UNCHANGED <<config_vars, union_vars, registry_vars, seen_complete, results_read, pc, setup_idx, not_started, started, finished,
                   temp_started, temp_waiting, obj, series_tests, series_dir, run_calls,
                   skipped_tests, polled>>

Scheduler ==
    \/ KickOff
    \/ KickOffPass
    \/ KickOffEnd
    \/ LoopEnter
    \/ LoopExit
    \/ CheckDone
    \/ CheckNotDone
    \/ CheckEnd
    \/ GateNotReady
    \/ GateRunPassed
    \/ GateSkip
    \/ GateRunAlways
    \/ Sleep

Executor == SetRunComplete

Next ==
    \/ KickOff
    \/ KickOffPass
    \/ KickOffEnd
    \/ LoopEnter
    \/ LoopExit
    \/ CheckDone
    \/ CheckNotDone
    \/ CheckEnd
    \/ GateNotReady
    \/ GateRunPassed
    \/ GateSkip
    \/ GateRunAlways
    \/ Sleep
    \/ SetRunComplete

Spec == Init /\ [][Next]_vars

\* The scheduler keeps running, and the executor finishes every test run.
InitAcyclic == Init /\ AllDefined(dep_graph) /\ ~HasCycle(dep_graph)

\* series whose graph is acyclic and names only tests of the series
SpecAcyclic == InitAcyclic /\ [][Next]_vars /\ WF_vars(Scheduler) /\ WF_vars(Executor)

(***************************************************************************)
(* A call of union_dictionary on any two dicts, the scheduler not running. *)
(***************************************************************************)
\* the scheduler's state before SeriesManager is made
NoScheduler ==
    /\ dep_graph = [t \in all_tests |-> {}]
    /\ depends_pass = [t \in all_tests |-> FALSE]
    /\ num_configs = [t \in all_tests |-> 1]
    /\ pc = "none"
    /\ setup_idx = 1
    /\ not_started = <<>>
    /\ started = <<>>
    /\ finished = <<>>
    /\ temp_started = <<>>
    /\ temp_waiting = <<>>
    /\ obj = [t \in all_tests |-> NoObj]
    /\ test_runs = <<>>
    /\ series_tests = {}
    /\ run_calls = [t \in all_tests |-> 0]
    /\ skipped_tests = [t \in all_tests |-> <<>>]
    /\ polled = FALSE
    /\ seen_complete = {}
    /\ results_read = {}

scheduler_vars == <<config_vars, pc, setup_idx, not_started, started, finished,
                    temp_started, temp_waiting, obj, test_runs, series_tests,
                    run_calls, skipped_tests, polled, seen_complete, results_read>>

InitUnion ==
    /\ NoScheduler
    /\ SeriesMade
    /\ dict1 \in Dicts(MaxList)
    /\ dict2 \in Dicts(MaxList)
    /\ new_dict = NoDict
    /\ ud_args = <<dict1, dict2>>
    /\ ud_pc = "call"

UnionDictionary ==
    /\ ud_pc = "call"
    /\ new_dict' \in union_dictionary(dict1, dict2)
    /\ dict1' = Dict1After(dict1, dict2)
    /\ ud_pc' = "return"
    /\ UNCHANGED <<scheduler_vars, registry_vars, series_dir, dict2, ud_args>>

NextUnion == UnionDictionary

SpecUnion == InitUnion /\ [][NextUnion]_vars

(***************************************************************************)
(* The series registry on its own: a series is made, tests are added, the  *)
(* test runs and the directory are touched from outside, and at the end    *)
(* the series is loaded by an id.                                          *)
(***************************************************************************)
InitRegistry ==
    /\ NoScheduler
    /\ NoUnion
    /\ series_dir = {}
    /\ series_path = FALSE
    /\ series_obj = "none"
    /\ test_dirs = TestIds
    /\ broken = {}
    /\ last_series = <<>>
    /\ pointer_write = "none"
    /\ added = {}
    /\ tests_before = {}
    /\ add_result = NoAdd
    /\ loaded = NotLoaded

sched_rest == <<config_vars, union_vars, pc, setup_idx, not_started, started,
                finished, temp_started, temp_waiting, obj, test_runs, run_calls,
                skipped_tests, polled, seen_complete, results_read>>

\* TestSeries(pav_cfg, tests): create_id_dir raises
CreateNoDir ==
    /\ series_obj = "none"
    /\ loaded = NotLoaded
    /\ series_obj' = "TestSeriesError"
    /\ UNCHANGED <<sched_rest, series_tests, series_dir, series_path, test_dirs,
                   broken, last_series, pointer_write, added, tests_before,
                   add_result, loaded>>

\* TestSeries(pav_cfg, tests): a symlink_to raises
CreateLinkError ==
    /\ series_obj = "none"
    /\ loaded = NotLoaded
    /\ \E tests \in TestLists :
      \E fail \in 0..Len(tests) :
        LET r == LinkTests({}, tests, 1, fail)
        IN  /\ r.raised
            /\ series_path' = TRUE
            /\ series_dir' = r.dir
            /\ series_obj' = "TestSeriesError"
    /\ UNCHANGED <<sched_rest, series_tests, test_dirs, broken, last_series,
                   pointer_write, added, tests_before, add_result, loaded>>

\* TestSeries(pav_cfg, tests): the links are made, _save_series_id is called
CreateSeries ==
    /\ series_obj = "none"
    /\ loaded = NotLoaded
    /\ \E tests \in TestLists, write_ok \in BOOLEAN :
        LET r == LinkTests({}, tests, 1, 0)
            saved == SaveSeriesId(write_ok, FALSE)
        IN  /\ ~r.raised
            /\ series_path' = TRUE
            /\ series_dir' = r.dir
            /\ pointer_write' = IF write_ok THEN "ok" ELSE "failed"
            /\ last_series' = IF write_ok THEN SeriesIdString ELSE last_series
            /\ series_obj' = IF saved = "AttributeError" THEN "AttributeError" ELSE "made"
            /\ series_tests' = IF saved = "AttributeError" THEN {} ELSE Range(tests)
            /\ added' = IF saved = "AttributeError" THEN {} ELSE Range(tests)
    /\ UNCHANGED <<sched_rest, test_dirs, broken, tests_before, add_result, loaded>>

\* series.add_tests(test_objs)
AddTests ==
    /\ series_obj = "made"
    /\ loaded = NotLoaded
    /\ \E test_objs \in TestLists :
      \E fail \in 0..Len(test_objs) :
        LET r == add_tests(series_tests, series_dir, test_objs, 1, fail)
        IN  /\ series_tests' = r.tests
            /\ series_dir' = r.dir
            /\ tests_before' = series_tests
            /\ add_result' = [last |-> IF r.raised THEN "TestSeriesError" ELSE "ok",
                               raised |-> add_result.raised \/ r.raised]
            /\ added' = IF r.raised THEN added ELSE added \cup Range(test_objs)
    /\ UNCHANGED <<sched_rest, series_path, series_obj, test_dirs, broken,
                   last_series, pointer_write, loaded>>

\* the test runs some link of the directory points to
Linked(dir) == {e.target : e \in {x \in dir : x.symlink}}

\* outside pavilion: the directory of a test run the series links to is removed
RemoveTestDir ==
    /\ loaded = NotLoaded
    /\ \E id \in test_dirs \cap Linked(series_dir) : test_dirs' = test_dirs \ {id}
    /\ UNCHANGED <<sched_rest, series_tests, series_dir, series_path, series_obj,
                   broken, last_series, pointer_write, added, tests_before,
                   add_result, loaded>>

\* outside pavilion: a test run the series links to is damaged, TestRun.load
\* raises TestRunError
BreakTest ==
    /\ loaded = NotLoaded
    /\ \E id \in (test_dirs \cap Linked(series_dir)) \ broken : broken' = broken \cup {id}
    /\ UNCHANGED <<sched_rest, series_tests, series_dir, series_path, series_obj,
                   test_dirs, last_series, pointer_write, added, tests_before,
                   add_result, loaded>>

\* outside pavilion: something else is put into the series directory
Pollute ==
    /\ loaded = NotLoaded
    /\ series_path
    /\ \E e \in {BadNameLink, JunkFile} \ series_dir : series_dir' = series_dir \cup {e}
    /\ UNCHANGED <<sched_rest, series_tests, series_path, series_obj, test_dirs,
                   broken, last_series, pointer_write, added, tests_before,
                   add_result, loaded>>

\* TestSeries.from_id(pav_cfg, id_), with the series' id or another one
FromId ==
    /\ loaded = NotLoaded
    /\ \E id_ \in {SeriesIdString, <<"s">> \o ToDigits(SeriesId + 1)} :
           loaded' = from_id(id_)
    /\ UNCHANGED <<sched_rest, series_tests, series_dir, series_path, series_obj,
                   test_dirs, broken, last_series, pointer_write, added,
                   tests_before, add_result>>

NextRegistry ==
    \/ CreateNoDir
    \/ CreateLinkError
    \/ CreateSeries
    \/ AddTests
    \/ RemoveTestDir
    \/ BreakTest
    \/ Pollute
    \/ FromId

SpecRegistry == InitRegistry /\ [][NextRegistry]_vars

(***************************************************************************)
(* Properties.                                                             *)
(***************************************************************************)
\* the test was skipped: skipped test runs were made for it
WasSkipped(t) == skipped_tests[t] # <<>>

\* the test was started through run_test
WasRun(t) == run_calls[t] > 0

\* the step decides the test: run_test is called or skipped test runs are made
Decided(t) == run_calls'[t] # run_calls[t] \/ skipped_tests'[t] # skipped_tests[t]

\* the step is the poll pass taking test t off temp_waiting
GateStep(t) ==
    /\ pc = "gate"
    /\ temp_waiting # <<>>
    /\ Head(temp_waiting) = t
    /\ temp_waiting' # temp_waiting

\* the test is in finished, as a skipped test or with every RUN_COMPLETE file
Terminal(t) ==
    /\ t \in Range(finished)
    /\ WasSkipped(t) \/ (obj[t] # NoObj /\ \A i \in 1..Len(obj[t]) : test_runs[obj[t][i]].complete)

\* C1: when the graph is acyclic and names only tests of the series, and every
\* test run gets its RUN_COMPLETE file, not_started becomes empty and the
\* while loop exits.
C1_LoopTerminates == <>(pc = "done" /\ not_started = <<>>)

C1_Witness ==
    /\ pc = "done"
    /\ \E t, u \in all_tests :
        /\ prev(t) # {} /\ WasRun(t)
        /\ prev(u) # {} /\ WasSkipped(u)

\* C2: when the poll loop has ended, every test is in finished (with every
\* RUN_COMPLETE file seen, or skipped); none is in started or not_started.
C2_AllTerminalAtExit ==
    pc = "done" =>
        /\ started = <<>>
        /\ not_started = <<>>
        /\ \A t \in all_tests : Terminal(t)

\* C3: a test with prerequisites is started or skipped only in a state where
\* every one of its prerequisites is in finished (finished or skipped).
C3_GatedAfterPrev ==
    [][\A t \in all_tests :
          (prev(t) # {} /\ Decided(t)) => \A wait \in prev(t) : wait \in all_tests /\ Terminal(wait)]_vars

C3_Witness ==
    \E t \in all_tests :
        /\ Cardinality(prev(t)) = 2
        /\ WasRun(t)
        /\ \E w \in prev(t) : WasSkipped(w)
        /\ \E w \in prev(t) : WasRun(w)

\* a prerequisite passed: it was run, not skipped, and every result is PASS
PrevPassed(w) ==
    /\ w \in all_tests
    /\ ~WasSkipped(w)
    /\ obj[w] # NoObj
    /\ \A i \in 1..Len(obj[w]) : test_runs[obj[w][i]].result = "PASS"

\* the test is eligible: the poll pass looks at it and finds all of prev finished
Eligible(t) == GateStep(t) /\ \A w \in prev(t) : w \in Range(finished)

\* the step moves the test from not_started to finished: it is skipped
SkipStep(t) ==
    /\ t \in Range(not_started)
    /\ t \notin Range(not_started')
    /\ t \in Range(finished')
    /\ t \notin Range(started')

\* the step moves the test from not_started to started: it is run
RunStep(t) ==
    /\ t \in Range(not_started)
    /\ t \notin Range(not_started')
    /\ t \in Range(started')
    /\ t \notin Range(finished')
    /\ run_calls'[t] = run_calls[t] + 1

\* C4: a test with depends_pass that is eligible while a prerequisite was
\* skipped or has a result other than PASS goes from not_started to finished
\* with run_test not called, in that step or any later one.
C4_SkippedWhenPrevNotPassed ==
    [][\A t \in all_tests :
          /\ (Eligible(t) /\ depends_pass[t] /\ \E w \in prev(t) : ~PrevPassed(w))
                => (SkipStep(t) /\ run_calls'[t] = 0)
          /\ (WasSkipped(t) => run_calls'[t] = 0)]_vars

C4_Witness ==
    \E t, u \in all_tests :
        /\ depends_pass[t] /\ WasSkipped(t) /\ \E w \in prev(t) : WasSkipped(w)
        /\ depends_pass[u] /\ WasSkipped(u)
        /\ \E w \in prev(u) : WasRun(w) /\ \E i \in 1..Len(obj[w]) : test_runs[obj[w][i]].result = "FAIL"
        /\ pc = "done"

\* C5: a test with depends_pass that is eligible while every prerequisite was
\* run (not skipped) with every result PASS is started through run_test, and
\* no skipped test run is made for it.
C5_RunWhenPrevPassed ==
    [][\A t \in all_tests :
          /\ (Eligible(t) /\ depends_pass[t] /\ \A w \in prev(t) : PrevPassed(w))
                => (RunStep(t) /\ skipped_tests'[t] = <<>> /\ series_tests' = series_tests)
          /\ ((depends_pass[t] /\ WasRun(t)) => skipped_tests'[t] = <<>>)]_vars

C5_Witness ==
    \E t \in all_tests :
        /\ depends_pass[t] /\ WasRun(t) /\ ~WasSkipped(t)
        /\ Cardinality(prev(t)) = 2
        /\ \A w \in prev(t) : PrevPassed(w)

\* C6: a test without depends_pass is started through run_test once all its
\* prerequisites are in finished, whatever their outcomes; it is never skipped.
C6_RunRegardless ==
    [][\A t \in all_tests :
          /\ (Eligible(t) /\ ~depends_pass[t]) => (RunStep(t) /\ skipped_tests'[t] = <<>>)
          /\ (~depends_pass[t] /\ pc' = "done" /\ \A w \in prev(t) : w \in Range(finished'))
                => run_calls'[t] = 1
          /\ (~depends_pass[t] => (~WasSkipped(t) /\ skipped_tests'[t] = <<>>))]_vars

C6_Witness ==
    \E t \in all_tests :
        /\ ~depends_pass[t] /\ WasRun(t)
        /\ \E w \in prev(t) : WasSkipped(w)
        /\ \E w \in prev(t) : WasRun(w) /\ \E i \in 1..Len(obj[w]) : test_runs[obj[w][i]].result = "FAIL"

\* C7: every test with no prerequisite is started in the kick-off loop, before
\* the poll loop and before any RUN_COMPLETE file is looked for, whatever its
\* depends_pass; tests with no prerequisites do not wait for each other.
C7_KickOffBeforeLoop ==
    /\ pc = "setup" =>
          /\ ~polled
          /\ finished = <<>>
          /\ \A i \in 1..(setup_idx - 1) :
                 prev(Order[i]) = {} => (Order[i] \in Range(started) /\ run_calls[Order[i]] = 1)
    /\ pc # "setup" =>
          \A t \in all_tests : prev(t) = {} => (WasRun(t) /\ ~WasSkipped(t))

C7_Witness ==
    /\ pc = "while"
    /\ ~polled
    /\ \E t, u \in all_tests :
        /\ prev(t) = {} /\ depends_pass[t] /\ t \in Range(started)
        /\ prev(u) = {} /\ ~depends_pass[u] /\ u \in Range(started)
        /\ \A i \in 1..Len(obj[t]) : ~test_runs[obj[t][i]].complete
        /\ \A i \in 1..Len(obj[u]) : ~test_runs[obj[u][i]].complete

\* the skipped test runs of a test: as many as its configs, each with its
\* RUN_COMPLETE file and the skip note, each added to the series
PlaceholdersMade(t) ==
    /\ Len(skipped_tests[t]) = num_configs[t]
    /\ NoDuplicates(skipped_tests[t])
    /\ \A i \in 1..Len(skipped_tests[t]) :
        /\ skipped_tests[t][i] \in 1..Len(test_runs)
        /\ test_runs[skipped_tests[t][i]].complete
        /\ test_runs[skipped_tests[t][i]].status = SkipNote
        /\ skipped_tests[t][i] \in series_tests
    /\ t \in Range(finished)
    /\ t \notin Range(started)
    /\ t \notin Range(not_started)

C9_CycleNeverEnds == HasCycle(dep_graph) => pc # "done"

\* C10: when a test depends on a name that no test of the series has, setup
\* fails and no test is started through run_test.
C10_UndefinedPrevStartsNothing ==
    ~AllDefined(dep_graph) => \A t \in all_tests : run_calls[t] = 0

\* C11: union_dictionary(d1, d2) has the keys of d1 and of d2; for a key of
\* both the value holds the values of the two lists, none twice; for a key of
\* one dict only the value is that dict's list as it was.
C11_UnionDictionary ==
    ud_pc = "return" =>
        LET d1 == ud_args[1]
            d2 == ud_args[2]
        IN  /\ DOMAIN new_dict = DOMAIN d1 \cup DOMAIN d2
            /\ \A k \in DOMAIN d1 \cap DOMAIN d2 :
                /\ Range(new_dict[k]) = Range(d1[k]) \cup Range(d2[k])
                /\ NoDuplicates(new_dict[k])
            /\ \A k \in DOMAIN d1 \ DOMAIN d2 : new_dict[k] = d1[k]
            /\ \A k \in DOMAIN d2 \ DOMAIN d1 : new_dict[k] = d2[k]

C11_Witness ==
    /\ ud_pc = "return"
    /\ DOMAIN ud_args[1] = Keys
    /\ DOMAIN ud_args[2] = {"k1"}
    /\ ud_args[1]["k1"] = <<"x", "y">>
    /\ ud_args[2]["k1"] = <<"y", "y">>
    /\ ud_args[1]["k2"] = <<"x", "x">>
    /\ Len(new_dict["k1"]) = 2

\* nothing outside pavilion has touched the test runs or the series directory
Untampered ==
    /\ test_dirs = TestIds
    /\ broken = {}
    /\ BadNameLink \notin series_dir
    /\ JunkFile \notin series_dir

\* from_id was called with the id of the series
LoadedById == loaded.id = SeriesIdString

\* C12: a series made with a list of tests, with more tests added through
\* add_tests, every call having returned normally, and then loaded by its id,
\* has the ids of exactly these tests, when nothing was removed or damaged
\* from outside.
C12_RoundTrip ==
    (LoadedById /\ series_obj = "made" /\ ~add_result.raised /\ Untampered) =>
        /\ loaded.status = "ok"
        /\ loaded.tests = added
        /\ loaded.tests = series_tests

C12_Witness ==
    /\ LoadedById
    /\ series_obj = "made"
    /\ ~add_result.raised
    /\ Untampered
    /\ add_result.last = "ok"
    /\ tests_before # {}
    /\ loaded.tests = TestIds
    /\ loaded.tests # tests_before

\* C13: when the write of the user's .series file fails while a series is
\* made, the failure is swallowed: the series is made, with its directory
\* and its links.
C13_PointerFailureSwallowed ==
    pointer_write = "failed" =>
        /\ series_obj = "made"
        /\ series_path
        /\ series_tests = {int(e.name) : e \in series_dir}

\* the ids of the members that can be loaded: a link with an id for a name,
\* to a directory that exists, of a test run that loads
Loadable ==
    {int(e.name) : e \in {x \in series_dir :
        x.symlink /\ ~ValueError(x.name) /\ x.target \in test_dirs /\ int(x.name) \notin broken}}

\* C14: when a series is loaded by its id and a member is missing or
\* malformed (the link dangles, its name is no id, or loading the test run
\* raises), from_id does not fail: it leaves that member out and returns the
\* others.
C14_PartialLoad ==
    (LoadedById /\ series_obj = "made" /\ JunkFile \notin series_dir) =>
        /\ loaded.status = "ok"
        /\ loaded.tests = Loadable

\* C15: the scheduler reads a test run's result (in all_tests_passed) only
\* after an earlier call of is_done has found that test run's RUN_COMPLETE
\* file, however the executor's writes fall between the scheduler's steps; no
\* result is read of a test run whose RUN_COMPLETE file has not been seen.
C15_ResultReadAfterMarkerSeen ==
    [][/\ results_read' \subseteq seen_complete
       /\ \A id \in results_read' : test_runs[id].complete]_vars

C15_Witness ==
    /\ \E id \in results_read : test_runs[id].result = "FAIL"
    /\ \E t \in all_tests :
        /\ t \in Range(started)
        /\ \E i \in 1..Len(obj[t]) : ~RunCompleteExists(obj[t][i])

\* C16: run_test is called at most once per test, and no test is both started
\* and skipped: a test with skipped test runs never has run_test called (it
\* has no 'obj'), and a started test never gets skipped test runs.
C16_RunOnceOrSkipped ==
    \A t \in all_tests :
        /\ run_calls[t] <= 1
        /\ ~(WasRun(t) /\ WasSkipped(t))
        /\ WasSkipped(t) => (run_calls[t] = 0 /\ obj[t] = NoObj)
        /\ WasRun(t) => skipped_tests[t] = <<>>

C16_Witness ==
    /\ pc = "done"
    /\ \A t \in all_tests : WasRun(t) \/ WasSkipped(t)
    /\ \E t \in all_tests : prev(t) = {} /\ run_calls[t] = 1
    /\ \E t \in all_tests : prev(t) # {} /\ run_calls[t] = 1
    /\ \E t \in all_tests : WasSkipped(t)

\* not_started, started and finished hold every test exactly once between them
Partition ==
    /\ NoDuplicates(not_started \o started \o finished)
    /\ Range(not_started) \cup Range(started) \cup Range(finished) = all_tests

\* C17: once the kick-off loop is over, every test is in exactly one of
\* not_started, started and finished: the three lists are disjoint, hold no
\* test twice, and together hold all tests.
C17_Partition == pc # "setup" => Partition

\* the state of a test: Finished or Skipped in finished, Running in started,
\* Pending when it is in neither
State(t) ==
    IF t \in Range(finished) THEN (IF WasSkipped(t) THEN "Skipped" ELSE "Finished")
    ELSE IF t \in Range(started) THEN "Running"
    ELSE "Pending"

\* every test run of the test has its RUN_COMPLETE file
AllMarkers(t) ==
    /\ obj[t] # NoObj
    /\ \A i \in 1..Len(obj[t]) : RunCompleteExists(obj[t][i])

\* C18: the state of a test only moves forward: Pending to Running (run_test),
\* Running to Finished (in check_and_update, every RUN_COMPLETE file there),
\* or Pending to Skipped; a test in finished stays in finished, and a test is
\* Finished only while every one of its test runs has its RUN_COMPLETE file.
C18_ForwardOnly ==
    [][\A t \in all_tests :
          /\ State(t)' # State(t) =>
                \/ /\ State(t) = "Pending" /\ State(t)' = "Running"
                   /\ run_calls'[t] = run_calls[t] + 1
                \/ /\ State(t) = "Running" /\ State(t)' = "Finished"
                   /\ pc = "check" /\ AllMarkers(t)
                \/ /\ State(t) = "Pending" /\ State(t)' = "Skipped"
                   /\ pc = "gate"
          /\ t \in Range(finished) => t \in Range(finished')
          /\ State(t)' = "Finished" => AllMarkers(t)']_vars

C18_Witness ==
    \E t, u, v \in all_tests :
        /\ State(t) = "Finished"
        /\ State(u) = "Skipped"
        /\ State(v) = "Running" /\ ~AllMarkers(v)

\* C19: after a series is made and after any add_tests calls, failed ones
\* included, the ids of self.tests are the ids of the links in the series
\* directory, and a failed add_tests leaves self.tests as it was.
C19_MembershipMatchesLinks ==
    (series_obj = "made" /\ Untampered) =>
        /\ series_tests = {int(e.name) : e \in series_dir}
        /\ add_result.last = "TestSeriesError" => series_tests = tests_before

====
